---------------------------- MODULE Spec2Model ----------------------------
(***************************************************************************)
(* Chemical equipment visualizer.                                          *)
(*                                                                         *)
(* Two state machines are modelled:                                        *)
(*   - APIClient (desktop-frontend/api.py): the token pair, login, logout  *)
(*     and the get/post calls with their one refresh-and-retry cycle,      *)
(*     against a transport whose answers are chosen nondeterministically   *)
(*     (specification SpecClient);                                         *)
(*   - the backend views (backend/api/views.py): the Dataset table, the    *)
(*     upload directory and the upload / summary / history / report        *)
(*     handlers (specification SpecServer).                                *)
(***************************************************************************)
EXTENDS Integers, Sequences, FiniteSets, TLC

VARIABLES
    \* ---- APIClient (desktop-frontend/api.py) ----
    access_token,    \* self._access_token
    refresh_token,   \* self._refresh_token
    pc,              \* position of the client inside the running operation
    op,              \* the operation that runs or ran last
    call,            \* locals of the running get/post: headers, response, files
    start,           \* the token pair when the operation was entered
    sent,            \* transmissions of the operation, in order
    rcvd,            \* outcomes the transport gave to those transmissions
    result,          \* what the operation gave back to its caller
    everLoggedIn,    \* some login has succeeded
    logouts,         \* logouts since the last successful login (2: two or more)
    \* ---- backend (backend/api/views.py, backend/api/models.py) ----
    datasets,        \* the Dataset table, in creation order
    files,           \* the upload directory: file path -> content
    clock,           \* the server clock read by auto_now_add
    lastRequest,     \* the request handled last
    lastResponse,    \* its response
    lastClear,       \* what the last history clear met, until the next upload
    created,         \* the successful uploads since the last history clear
    figures,         \* the figures open in pyplot
    lastCharts,      \* how the rendering calls of the last report ended
    running,         \* the upload and the clear that run step by step
    \* ---- desktop application (desktop-frontend/main.py, dashboard.py) ----
    login_window,    \* the login window is shown
    dashboard_window,\* the dashboard: its fields, or NoWindow when there is none
    handled          \* the dashboard handler that ran last and what it met

clientVars == <<access_token, refresh_token, pc, op, call, start, sent, rcvd,
                result, everLoggedIn, logouts>>
serverVars == <<datasets, files, clock, lastRequest, lastResponse, lastClear, created,
                figures, lastCharts>>
stepVars == <<running>>
uiVars == <<login_window, dashboard_window, handled>>
vars == <<clientVars, serverVars, stepVars, uiVars>>

(***************************************************************************)
(* Bounds                                                                  *)
(***************************************************************************)
MaxToken == 2
MaxUploads == 7
MaxEnvUploads == 3
MaxValidated == 1
MaxRows == 3
MaxIngested == 2
MaxFigures == 4
MaxReported == 2
MaxStored == 3
MaxRaced == 3

(***************************************************************************)
(* Tokens and headers                                                      *)
(***************************************************************************)
\* Python's None.
None == <<"None", 0>>

\* A header that is not in the headers dict.
NoHeader == <<"absent", 0>>

\* The tokens the token endpoints hand out.
AccessTokens == {<<"access", i>> : i \in 1..MaxToken}
RefreshTokens == {<<"refresh", i>> : i \in 1..MaxToken}

\* Truth value of `if token:` for None or a non-empty string.
Truthy(token) == token # None

\* f"Bearer {token}": formats whatever the token is, None included.
Bearer(token) == <<"Bearer", token>>

is_authenticated(token) == token # None

\* The Authorization entry of the `headers` property.
headers(token) == IF Truthy(token) THEN Bearer(token) ELSE NoHeader

(***************************************************************************)
(* Outcomes of one transmission                                            *)
(***************************************************************************)
Statuses == {200, 400, 401, 404, 500}

\* requests.exceptions: ConnectTimeout is both a ConnectionError and a Timeout,
\* ReadTimeout a Timeout only; "Exception" is any other exception (a body that
\* is not JSON, ...).
Exceptions == {"ConnectionError", "ConnectTimeout", "ReadTimeout", "Exception"}
IsConnectionError(e) == e \in {"ConnectionError", "ConnectTimeout"}
IsTimeout(e) == e \in {"ConnectTimeout", "ReadTimeout"}

Answered(s, a, r) == [kind |-> "response", status |-> s, exc |-> "",
                      access |-> a, refresh |-> r]
Raised(e) == [kind |-> "raise", status |-> 0, exc |-> e,
              access |-> None, refresh |-> None]

\* What requests.get / requests.post of an API endpoint can give.
CallOutcomes ==
    {Answered(s, None, None) : s \in Statuses} \cup {Raised(e) : e \in Exceptions}

\* What POST /api/token/ can give: a 200 of the token view carries a token
\* pair; a body that cannot be read as one is the outcome "Exception".
LoginOutcomes ==
    {Answered(200, a, r) : a \in AccessTokens, r \in RefreshTokens}
    \cup {Answered(s, None, None) : s \in Statuses \ {200}}
    \cup {Raised(e) : e \in Exceptions}

\* What POST /api/token/refresh/ can give: 200 carries an access token
\* (ROTATE_REFRESH_TOKENS is off: no new refresh token).
RefreshOutcomes ==
    {Answered(200, a, None) : a \in AccessTokens}
    \cup {Answered(s, None, None) : s \in Statuses \ {200}}
    \cup {Raised(e) : e \in Exceptions}

(***************************************************************************)
(* Transmissions                                                           *)
(***************************************************************************)
Request(method, auth, ctype, hasFiles) ==
    [to |-> "api", method |-> method, auth |-> auth, ctype |-> ctype,
     files |-> hasFiles, refresh |-> None, body |-> "none"]
TokenRequest ==
    [to |-> "token", method |-> "POST", auth |-> NoHeader, ctype |-> "json",
     files |-> FALSE, refresh |-> None, body |-> "none"]
RefreshRequest(token) ==
    [to |-> "refresh", method |-> "POST", auth |-> NoHeader, ctype |-> "json",
     files |-> FALSE, refresh |-> token, body |-> "none"]

\* The response object a call holds: its status and the transmission it answers.
Response(status, n) == [status |-> status, of |-> n]
NoResponse == Response(0, 0)

Returned(r) == [kind |-> "return", response |-> r, exc |-> "",
                success |-> FALSE, message |-> <<>>]
Propagated(e) == [kind |-> "raise", response |-> NoResponse, exc |-> e,
                  success |-> FALSE, message |-> <<>>]
LoginResult(ok, msg) == [kind |-> "return", response |-> NoResponse, exc |-> "",
                         success |-> ok, message |-> msg]
NoResult == [kind |-> "none", response |-> NoResponse, exc |-> "",
             success |-> FALSE, message |-> <<>>]

NoCall ==
    [method |-> "", files |-> FALSE, unread |-> FALSE, auth |-> NoHeader,
     response |-> NoResponse]

Idle == pc \in {"idle", "returned"}

(***************************************************************************)
(* APIClient.login                                                         *)
(***************************************************************************)
\* The message of the result dict for each outcome of the token request: the
\* except clauses are tried in order, ConnectionError before Timeout.
LoginMessage(o) ==
    IF o.kind = "response"
    THEN IF o.status = 200 THEN <<"Login successful">>
         ELSE IF o.status = 401 THEN <<"Invalid username or password">>
         ELSE <<"Login failed", o.status>>
    ELSE IF IsConnectionError(o.exc) THEN <<"Cannot connect to server">>
    ELSE IF IsTimeout(o.exc) THEN <<"Request timed out">>
    ELSE <<"str(e)", o.exc>>

\* A login that stores the access token only.
Login_accessOnly(o) ==
    /\ Idle
    /\ IF o.kind = "response" /\ o.status = 200
       THEN /\ access_token' = o.access
            /\ everLoggedIn' = TRUE
            /\ logouts' = 0
            /\ UNCHANGED refresh_token
       ELSE UNCHANGED <<access_token, refresh_token, everLoggedIn, logouts>>
    /\ result' = LoginResult(o.kind = "response" /\ o.status = 200, LoginMessage(o))
    /\ op' = "login"
    /\ pc' = "returned"
    /\ call' = NoCall
    /\ start' = <<access_token, refresh_token>>
    /\ sent' = <<TokenRequest>>
    /\ rcvd' = <<o>>
    /\ UNCHANGED <<serverVars, stepVars, uiVars>>

\* A login that forgets the tokens it holds when the attempt fails.
Login_clearsOnFailure(o) ==
    /\ Idle
    /\ access_token' = (IF o.kind = "response" /\ o.status = 200 THEN o.access ELSE None)
    /\ refresh_token' = (IF o.kind = "response" /\ o.status = 200 THEN o.refresh ELSE None)
    /\ result' = LoginResult(o.kind = "response" /\ o.status = 200, LoginMessage(o))
    /\ everLoggedIn' = (everLoggedIn \/ (o.kind = "response" /\ o.status = 200))
    /\ logouts' = (IF o.kind = "response" /\ o.status = 200 THEN 0 ELSE logouts)
    /\ op' = "login"
    /\ pc' = "returned"
    /\ call' = NoCall
    /\ start' = <<access_token, refresh_token>>
    /\ sent' = <<TokenRequest>>
    /\ rcvd' = <<o>>
    /\ UNCHANGED <<serverVars, stepVars, uiVars>>

Login(o) ==
    /\ Idle
    /\ IF o.kind = "response" /\ o.status = 200
       THEN /\ access_token' = o.access
            /\ refresh_token' = o.refresh
            /\ everLoggedIn' = TRUE
            /\ logouts' = 0
       ELSE UNCHANGED <<access_token, refresh_token, everLoggedIn, logouts>>
    /\ result' = LoginResult(o.kind = "response" /\ o.status = 200, LoginMessage(o))
    /\ op' = "login"
    /\ pc' = "returned"
    /\ call' = NoCall
    /\ start' = <<access_token, refresh_token>>
    /\ sent' = <<TokenRequest>>
    /\ rcvd' = <<o>>
    /\ UNCHANGED <<serverVars, stepVars, uiVars>>

(***************************************************************************)
(* APIClient.logout                                                        *)
(***************************************************************************)
\* A logout that clears the access token only.
Logout_keepsRefresh ==
    /\ Idle
    /\ access_token' = None
    /\ UNCHANGED refresh_token
    /\ logouts' = (IF logouts < 2 THEN logouts + 1 ELSE 2)
    /\ op' = "logout"
    /\ pc' = "returned"
    /\ call' = NoCall
    /\ start' = <<access_token, refresh_token>>
    /\ sent' = <<>>
    /\ rcvd' = <<>>
    /\ result' = NoResult
    /\ UNCHANGED <<everLoggedIn, serverVars, stepVars, uiVars>>

Logout ==
    /\ Idle
    /\ access_token' = None
    /\ refresh_token' = None
    /\ logouts' = (IF logouts < 2 THEN logouts + 1 ELSE 2)
    /\ op' = "logout"
    /\ pc' = "returned"
    /\ call' = NoCall
    /\ start' = <<access_token, refresh_token>>
    /\ sent' = <<>>
    /\ rcvd' = <<>>
    /\ result' = NoResult
    /\ UNCHANGED <<everLoggedIn, serverVars, stepVars, uiVars>>

(***************************************************************************)
(* APIClient.get / APIClient.post                                          *)
(***************************************************************************)
\* The first transmission: get pops Content-Type, a file upload builds its own
\* headers without Content-Type, a JSON post sends self.headers.
FirstRequest(method, hasFiles, token) ==
    Request(method, headers(token),
            IF method = "POST" /\ ~hasFiles THEN "json" ELSE "",
            hasFiles)

\* get(): lines 123-127.
Get ==
    /\ Idle
    /\ op' = "get"
    /\ pc' = "sent_first"
    /\ call' = [method |-> "GET", files |-> FALSE, unread |-> FALSE,
                auth |-> headers(access_token), response |-> NoResponse]
    /\ start' = <<access_token, refresh_token>>
    /\ sent' = <<FirstRequest("GET", FALSE, access_token)>>
    /\ rcvd' = <<>>
    /\ result' = NoResult
    /\ UNCHANGED <<access_token, refresh_token, everLoggedIn, logouts, serverVars, stepVars, uiVars>>

\* requests.post(url, files=files): the multipart body is built by reading each
\* file object of `files` from its position to its end, which leaves the
\* object at its end. Without files the body carries no file part.
Transmit(req, hasFiles, unread) ==
    [req EXCEPT !.body = IF ~hasFiles THEN "none"
                         ELSE IF unread THEN "content" ELSE "empty"]

\* post(): lines 150-159. The caller of a file upload passes a file object it
\* has just opened (dashboard.py 808-811); the first transmission reads it.
Post(hasFiles) ==
    /\ Idle
    /\ op' = "post"
    /\ pc' = "sent_first"
    /\ call' = [method |-> "POST", files |-> hasFiles, unread |-> FALSE,
                auth |-> headers(access_token), response |-> NoResponse]
    /\ start' = <<access_token, refresh_token>>
    /\ sent' = <<Transmit(FirstRequest("POST", hasFiles, access_token), hasFiles, TRUE)>>
    /\ rcvd' = <<>>
    /\ result' = NoResult
    /\ UNCHANGED <<access_token, refresh_token, everLoggedIn, logouts, serverVars, stepVars, uiVars>>

\* `if response.status_code == 401 and self._refresh_token`.
\* A refresh on any failure status.
ShouldRefresh_anyError(status, token) == status # 200 /\ Truthy(token)
ShouldRefresh(status, token) == status = 401 /\ Truthy(token)

\* The first transmission is answered; on 401 with a refresh token the client
\* enters refresh_access_token, whose own guard sends nothing without a token.
RecvFirst(o) ==
    /\ pc = "sent_first"
    /\ rcvd' = Append(rcvd, o)
    /\ IF o.kind = "raise"
       THEN /\ result' = Propagated(o.exc)
            /\ pc' = "returned"
            /\ UNCHANGED <<call, sent>>
       ELSE /\ call' = [call EXCEPT !.response = Response(o.status, 1)]
            /\ IF ShouldRefresh(o.status, refresh_token)
               THEN IF ~Truthy(refresh_token)
                    THEN /\ result' = Returned(Response(o.status, 1))
                         /\ pc' = "returned"
                         /\ UNCHANGED sent
                    ELSE /\ sent' = Append(sent, RefreshRequest(refresh_token))
                         /\ pc' = "refreshing"
                         /\ UNCHANGED result
               ELSE /\ result' = Returned(Response(o.status, 1))
                    /\ pc' = "returned"
                    /\ UNCHANGED sent
    /\ UNCHANGED <<access_token, refresh_token, op, start, everLoggedIn, logouts,
                   serverVars, stepVars, uiVars>>

\* The Authorization header of the retried transmission: get and the file
\* upload overwrite the entry of their local headers, a JSON post reads
\* self.headers again.
\* A retry that sends the headers of the first transmission again.
RetryAuth_stale(c, token) == c.auth
RetryAuth(c, token) ==
    IF c.method = "POST" /\ ~c.files THEN headers(token) ELSE Bearer(token)

\* refresh_access_token's answer arrives: True on 200 (the access token is
\* replaced and the request transmitted again), False on anything else.
\* A client that retries whether or not the refresh succeeded.
RecvRefresh_retriesAnyway(o) ==
    /\ pc = "refreshing"
    /\ rcvd' = Append(rcvd, o)
    /\ IF o.kind = "response" /\ o.status = 200
       THEN access_token' = o.access
       ELSE UNCHANGED access_token
    /\ call' = [call EXCEPT !.auth = RetryAuth(call, access_token')]
    /\ sent' = Append(sent, Transmit(Request(call.method,
                                             RetryAuth(call, access_token'),
                                             IF call.method = "POST" /\ ~call.files
                                             THEN "json" ELSE "",
                                             call.files),
                                     call.files, call.unread))
    /\ pc' = "sent_retry"
    /\ UNCHANGED result
    /\ UNCHANGED <<refresh_token, op, start, everLoggedIn, logouts, serverVars, stepVars, uiVars>>

RecvRefresh(o) ==
    /\ pc = "refreshing"
    /\ rcvd' = Append(rcvd, o)
    /\ IF o.kind = "response" /\ o.status = 200
       THEN /\ access_token' = o.access
            /\ call' = [call EXCEPT !.auth = RetryAuth(call, o.access)]
            /\ sent' = Append(sent, Transmit(Request(call.method,
                                                     RetryAuth(call, o.access),
                                                     IF call.method = "POST" /\ ~call.files
                                                     THEN "json" ELSE "",
                                                     call.files),
                                             call.files, call.unread))
            /\ pc' = "sent_retry"
            /\ UNCHANGED result
       ELSE /\ result' = Returned(call.response)
            /\ pc' = "returned"
            /\ UNCHANGED <<access_token, call, sent>>
    /\ UNCHANGED <<refresh_token, op, start, everLoggedIn, logouts, serverVars, stepVars, uiVars>>

\* The retried transmission is answered: whatever it is goes to the caller.
\* A client that handles the retried transmission like the first one,
\* refreshing again on 401.
RecvRetry_again(o) ==
    /\ pc = "sent_retry"
    /\ Len(sent) < 8
    /\ rcvd' = Append(rcvd, o)
    /\ IF o.kind = "raise"
       THEN /\ result' = Propagated(o.exc)
            /\ pc' = "returned"
            /\ UNCHANGED <<call, sent>>
       ELSE /\ call' = [call EXCEPT !.response = Response(o.status, 2)]
            /\ IF ShouldRefresh(o.status, refresh_token)
               THEN /\ sent' = Append(sent, RefreshRequest(refresh_token))
                    /\ pc' = "refreshing"
                    /\ UNCHANGED result
               ELSE /\ result' = Returned(Response(o.status, 2))
                    /\ pc' = "returned"
                    /\ UNCHANGED sent
    /\ UNCHANGED <<access_token, refresh_token, op, start, everLoggedIn, logouts,
                   serverVars, stepVars, uiVars>>

RecvRetry(o) ==
    /\ pc = "sent_retry"
    /\ rcvd' = Append(rcvd, o)
    /\ IF o.kind = "raise"
       THEN /\ result' = Propagated(o.exc)
            /\ UNCHANGED call
       ELSE /\ result' = Returned(Response(o.status, 2))
            /\ call' = [call EXCEPT !.response = Response(o.status, 2)]
    /\ pc' = "returned"
    /\ UNCHANGED <<access_token, refresh_token, op, start, sent, everLoggedIn,
                   logouts, serverVars, stepVars, uiVars>>

(***************************************************************************)
(* Client specification                                                    *)
(***************************************************************************)
InitClientVars ==
    /\ access_token = None
    /\ refresh_token = None
    /\ pc = "idle"
    /\ op = "none"
    /\ call = NoCall
    /\ start = <<None, None>>
    /\ sent = <<>>
    /\ rcvd = <<>>
    /\ result = NoResult
    /\ everLoggedIn = FALSE
    /\ logouts = 0

(***************************************************************************)
(* Tables (parsed CSV files)                                               *)
(***************************************************************************)
RequiredColumns == <<"Equipment Name", "Type", "Flowrate", "Pressure", "Temperature">>

AllColumns == {RequiredColumns[i] : i \in 1..Len(RequiredColumns)}

Row(name, type, f, p, t) ==
    [name |-> name, type |-> type, flowrate |-> f, pressure |-> p, temperature |-> t]

\* A file's content: whether pd.read_csv can parse it, its header and its rows.
ExampleTable ==
    [parsable |-> TRUE, columns |-> AllColumns,
     rows |-> <<Row("P-1", "Pump", 10, 2, 30), Row("P-2", "Pump", 20, 4, 40),
                Row("V-1", "Valve", 5, 1, 20)>>]
OtherTable ==
    [parsable |-> TRUE, columns |-> AllColumns,
     rows |-> <<Row("V-7", "Valve", 1, 1, 25), Row("R-1", "Reactor", 7, 3, 90),
                Row("R-2", "Reactor", 8, 4, 95), Row("M-1", "Mixer", 2, 1, 40)>>]
NoPressureTable ==
    [parsable |-> TRUE, columns |-> AllColumns \ {"Pressure"},
     rows |-> <<Row("P-1", "Pump", 10, 0, 30)>>]
BrokenFile ==
    [parsable |-> FALSE, columns |-> {}, rows |-> <<>>]

SampleTables == {ExampleTable, OtherTable, NoPressureTable, BrokenFile}

FileNames == {"a.csv", "b.csv"}

\* No file under a path.
Missing == [parsable |-> FALSE, columns |-> {"<missing>"}, rows |-> <<>>]

\* request.FILES.get('file'): an uploaded file or nothing.
NoFile == [name |-> "", content |-> Missing]
UploadedFiles == [name : FileNames, content : SampleTables]

(***************************************************************************)
(* Dataset table (backend/api/models.py)                                   *)
(***************************************************************************)
Dataset(file_name, uploaded_at) == [file_name |-> file_name, uploaded_at |-> uploaded_at]

\* The records ordered the wrong way round, oldest timestamp first.
RECURSIVE OrderByUploadedAtAsc(_)
OrderByUploadedAtAsc(records) ==
    IF records = {} THEN <<>>
    ELSE LET first == CHOOSE d \in records :
                          \A e \in records : d.uploaded_at <= e.uploaded_at
         IN  <<first>> \o OrderByUploadedAtAsc(records \ {first})

\* Dataset.objects.order_by('-uploaded_at'): the records, latest timestamp first.
RECURSIVE OrderByUploadedAtDesc(_)
OrderByUploadedAtDesc(records) ==
    IF records = {} THEN <<>>
    ELSE LET first == CHOOSE d \in records :
                          \A e \in records : d.uploaded_at >= e.uploaded_at
         IN  <<first>> \o OrderByUploadedAtDesc(records \ {first})

Records(table) == {table[i] : i \in 1..Len(table)}

\* A slice that stops one entry early.
Slice_short(seq, k) == SubSeq(seq, 1, IF Len(seq) < k - 1 THEN Len(seq) ELSE k - 1)

\* queryset[:k]
Slice(seq, k) == SubSeq(seq, 1, IF Len(seq) < k THEN Len(seq) ELSE k)

\* .first(): None on an empty queryset.
NoDataset == Dataset("", -1)
First(seq) == IF seq = <<>> THEN NoDataset ELSE seq[1]

\* The number of entries GET /api/history/ lists at most.
HistoryLimit == 5

(***************************************************************************)
(* Responses                                                               *)
(***************************************************************************)
Reply(status, error, body) == [status |-> status, error |-> error, body |-> body]
NoReply == Reply(0, "", <<>>)
Unauthorized == Reply(401, "Authentication credentials were not provided.", <<>>)
ServerError == Reply(500, "Internal Server Error", <<>>)

NoDatasetError == "No dataset uploaded yet. Please upload a CSV file first."

HttpRequest(method, path, authed, file) ==
    [method |-> method, path |-> path, authed |-> authed, file |-> file]
NoRequest == HttpRequest("", "", FALSE, NoFile)

(***************************************************************************)
(* UploadCSV.post                                                          *)
(***************************************************************************)
\* The last required column the table lacks instead of the first.
FirstMissing_last(columns, i) ==
    LET lacking == {k \in i..Len(RequiredColumns) : RequiredColumns[k] \notin columns}
    IN  IF lacking = {} THEN 0 ELSE CHOOSE k \in lacking : \A j \in lacking : j <= k

\* The first required column the table lacks, 0 when it has them all.
RECURSIVE FirstMissing(_, _)
FirstMissing(columns, i) ==
    IF i > Len(RequiredColumns) THEN 0
    ELSE IF RequiredColumns[i] \notin columns THEN i
    ELSE FirstMissing(columns, i + 1)

\* The paths the records refer to, and the paths that hold a file.
Referenced(table) == {table[i].file_name : i \in 1..Len(table)}
Existing(disk) == {f \in FileNames : disk[f] # Missing}

\* What a clear met: the paths whose os.remove raises, the paths its records
\* referred to and the paths that held a file.
Clear(failing, table, disk) ==
    [failing |-> failing, referenced |-> Referenced(table), existed |-> Existing(disk)]
NoClear == Clear({}, <<>>, [f \in FileNames |-> Missing])

\* An upload that does not overwrite a file that is already there.
UploadCSV_post_keepsExistingFile(authed, file) ==
    /\ lastRequest' = HttpRequest("POST", "/api/upload/", authed, file)
    /\ IF ~authed
       THEN /\ lastResponse' = Unauthorized
            /\ UNCHANGED <<datasets, files, clock, lastClear, created>>
       ELSE IF file = NoFile
       THEN /\ lastResponse' = Reply(400, "No file uploaded", <<>>)
            /\ UNCHANGED <<datasets, files, clock, lastClear, created>>
       ELSE IF ~file.content.parsable
       THEN /\ lastResponse' = Reply(400, "Invalid CSV file", <<>>)
            /\ UNCHANGED <<datasets, files, clock, lastClear, created>>
       ELSE IF FirstMissing(file.content.columns, 1) # 0
       THEN /\ lastResponse' =
                  Reply(400, "Missing column: ",
                        <<RequiredColumns[FirstMissing(file.content.columns, 1)]>>)
            /\ UNCHANGED <<datasets, files, clock, lastClear, created>>
       ELSE /\ clock < MaxUploads
            /\ files' = IF files[file.name] = Missing
                        THEN [files EXCEPT ![file.name] = file.content]
                        ELSE files
            /\ clock' = clock + 1
            /\ datasets' = Append(datasets, Dataset(file.name, clock + 1))
            /\ lastResponse' = Reply(200, "", <<"CSV uploaded successfully">>)
            /\ lastClear' = NoClear
            /\ created' = created + 1
    /\ UNCHANGED <<figures, lastCharts, clientVars, stepVars, uiVars>>

\* An upload that keeps one record per file name: a name stored before has its
\* record stamped anew instead of a record being created.
UploadCSV_post_replacesSameName(authed, file) ==
    /\ lastRequest' = HttpRequest("POST", "/api/upload/", authed, file)
    /\ IF ~authed
       THEN /\ lastResponse' = Unauthorized
            /\ UNCHANGED <<datasets, files, clock, lastClear, created>>
       ELSE IF file = NoFile
       THEN /\ lastResponse' = Reply(400, "No file uploaded", <<>>)
            /\ UNCHANGED <<datasets, files, clock, lastClear, created>>
       ELSE IF ~file.content.parsable
       THEN /\ lastResponse' = Reply(400, "Invalid CSV file", <<>>)
            /\ UNCHANGED <<datasets, files, clock, lastClear, created>>
       ELSE IF FirstMissing(file.content.columns, 1) # 0
       THEN /\ lastResponse' =
                  Reply(400, "Missing column: ",
                        <<RequiredColumns[FirstMissing(file.content.columns, 1)]>>)
            /\ UNCHANGED <<datasets, files, clock, lastClear, created>>
       ELSE /\ clock < MaxUploads
            /\ files' = [files EXCEPT ![file.name] = file.content]
            /\ clock' = clock + 1
            /\ datasets' =
                  IF \E i \in 1..Len(datasets) : datasets[i].file_name = file.name
                  THEN [i \in 1..Len(datasets) |->
                           IF datasets[i].file_name = file.name
                           THEN Dataset(file.name, clock + 1) ELSE datasets[i]]
                  ELSE Append(datasets, Dataset(file.name, clock + 1))
            /\ lastResponse' = Reply(200, "", <<"CSV uploaded successfully">>)
            /\ lastClear' = NoClear
            /\ created' = created + 1
    /\ UNCHANGED <<figures, lastCharts, clientVars, stepVars, uiVars>>

\* An upload that writes the file to the upload directory as soon as it has
\* one, before parsing and validating it.
UploadCSV_post_writesFirst(authed, file) ==
    /\ lastRequest' = HttpRequest("POST", "/api/upload/", authed, file)
    /\ IF ~authed
       THEN /\ lastResponse' = Unauthorized
            /\ UNCHANGED <<datasets, files, clock, lastClear, created>>
       ELSE IF file = NoFile
       THEN /\ lastResponse' = Reply(400, "No file uploaded", <<>>)
            /\ UNCHANGED <<datasets, files, clock, lastClear, created>>
       ELSE IF ~file.content.parsable
       THEN /\ lastResponse' = Reply(400, "Invalid CSV file", <<>>)
            /\ files' = [files EXCEPT ![file.name] = file.content]
            /\ UNCHANGED <<datasets, clock, lastClear, created>>
       ELSE IF FirstMissing(file.content.columns, 1) # 0
       THEN /\ lastResponse' =
                  Reply(400, "Missing column: ",
                        <<RequiredColumns[FirstMissing(file.content.columns, 1)]>>)
            /\ files' = [files EXCEPT ![file.name] = file.content]
            /\ UNCHANGED <<datasets, clock, lastClear, created>>
       ELSE /\ clock < MaxUploads
            /\ files' = [files EXCEPT ![file.name] = file.content]
            /\ clock' = clock + 1
            /\ datasets' = Append(datasets, Dataset(file.name, clock + 1))
            /\ lastResponse' = Reply(200, "", <<"CSV uploaded successfully">>)
            /\ lastClear' = NoClear
            /\ created' = created + 1
    /\ UNCHANGED <<figures, lastCharts, clientVars, stepVars, uiVars>>

UploadCSV_post(authed, file) ==
    /\ lastRequest' = HttpRequest("POST", "/api/upload/", authed, file)
    /\ IF ~authed
       THEN /\ lastResponse' = Unauthorized
            /\ UNCHANGED <<datasets, files, clock, lastClear, created>>
       ELSE IF file = NoFile
       THEN /\ lastResponse' = Reply(400, "No file uploaded", <<>>)
            /\ UNCHANGED <<datasets, files, clock, lastClear, created>>
       ELSE IF ~file.content.parsable
       THEN /\ lastResponse' = Reply(400, "Invalid CSV file", <<>>)
            /\ UNCHANGED <<datasets, files, clock, lastClear, created>>
       ELSE IF FirstMissing(file.content.columns, 1) # 0
       THEN /\ lastResponse' =
                  Reply(400, "Missing column: ",
                        <<RequiredColumns[FirstMissing(file.content.columns, 1)]>>)
            /\ UNCHANGED <<datasets, files, clock, lastClear, created>>
       ELSE /\ clock < MaxUploads
            /\ files' = [files EXCEPT ![file.name] = file.content]
            /\ clock' = clock + 1
            /\ datasets' = Append(datasets, Dataset(file.name, clock + 1))
            /\ lastResponse' = Reply(200, "", <<"CSV uploaded successfully">>)
            /\ lastClear' = NoClear
            /\ created' = created + 1
    /\ UNCHANGED <<figures, lastCharts, clientVars, stepVars, uiVars>>

(***************************************************************************)
(* HistoryAPI                                                              *)
(***************************************************************************)
HistoryEntry(d) == [file_name |-> d.file_name, uploaded_at |-> d.uploaded_at]

\* The `history` list built by get.
HistoryList(table) ==
    LET recent == Slice(OrderByUploadedAtDesc(Records(table)), HistoryLimit)
    IN  [i \in 1..Len(recent) |-> HistoryEntry(recent[i])]

HistoryAPI_get(authed) ==
    /\ lastRequest' = HttpRequest("GET", "/api/history/", authed, NoFile)
    /\ lastResponse' =
          IF ~authed THEN Unauthorized
          ELSE Reply(200, "", [count |-> Len(HistoryList(datasets)),
                               datasets |-> HistoryList(datasets)])
    /\ UNCHANGED <<datasets, files, clock, lastClear, created, figures, lastCharts,
                   clientVars, stepVars, uiVars>>

\* The upload directory after the loop of delete: the file of a record is
\* removed when it exists, unless os.remove raises, which is passed over.
AfterRemovals(failing, table, disk) ==
    [f \in FileNames |->
        IF f \in Referenced(table) /\ disk[f] # Missing /\ f \notin failing
        THEN Missing ELSE disk[f]]

\* A delete that removes the files and leaves the records.
HistoryAPI_delete_keepsRecords(authed, failing) ==
    /\ lastRequest' = HttpRequest("DELETE", "/api/history/", authed, NoFile)
    /\ IF ~authed
       THEN /\ lastResponse' = Unauthorized
            /\ UNCHANGED <<files, lastClear, created>>
       ELSE /\ files' = AfterRemovals(failing, datasets, files)
            /\ lastClear' = Clear(failing, datasets, files)
            /\ created' = 0
            /\ lastResponse' = Reply(200, "", <<"All history cleared successfully">>)
    /\ UNCHANGED <<datasets, clock, figures, lastCharts, clientVars, stepVars, uiVars>>

\* A delete that lets the exception of os.remove out: the request ends in a
\* server error and the records stay.
HistoryAPI_delete_failureAborts(authed, failing) ==
    /\ lastRequest' = HttpRequest("DELETE", "/api/history/", authed, NoFile)
    /\ IF ~authed
       THEN /\ lastResponse' = Unauthorized
            /\ UNCHANGED <<datasets, files, lastClear, created>>
       ELSE /\ lastClear' = Clear(failing, datasets, files)
            /\ IF Referenced(datasets) \cap Existing(files) \cap failing # {}
               THEN /\ lastResponse' = Reply(500, "Internal Server Error", <<>>)
                    /\ UNCHANGED <<datasets, files, created>>
               ELSE /\ files' = AfterRemovals(failing, datasets, files)
                    /\ created' = 0
                    /\ datasets' = <<>>
                    /\ lastResponse' =
                          Reply(200, "", <<"All history cleared successfully">>)
    /\ UNCHANGED <<clock, figures, lastCharts, clientVars, stepVars, uiVars>>

\* A delete whose loop ends at the first removal that raises.
HistoryAPI_delete_stopsAtFailure(authed, failing) ==
    /\ lastRequest' = HttpRequest("DELETE", "/api/history/", authed, NoFile)
    /\ IF ~authed
       THEN /\ lastResponse' = Unauthorized
            /\ UNCHANGED <<datasets, files, lastClear, created>>
       ELSE LET fails == {i \in 1..Len(datasets) :
                             /\ files[datasets[i].file_name] # Missing
                             /\ datasets[i].file_name \in failing}
                reached == IF fails = {} THEN datasets
                           ELSE SubSeq(datasets, 1,
                                       (CHOOSE i \in fails : \A k \in fails : i <= k) - 1)
            IN  /\ files' = AfterRemovals(failing, reached, files)
                /\ lastClear' = Clear(failing, datasets, files)
                /\ created' = 0
            /\ created' = 0
                /\ datasets' = <<>>
                /\ lastResponse' = Reply(200, "", <<"All history cleared successfully">>)
    /\ UNCHANGED <<clock, figures, lastCharts, clientVars, stepVars, uiVars>>

\* delete: every record's file is removed when it exists and os.remove does not
\* fail (`failing`: the paths whose removal raises), then all records go.
HistoryAPI_delete(authed, failing) ==
    /\ lastRequest' = HttpRequest("DELETE", "/api/history/", authed, NoFile)
    /\ IF ~authed
       THEN /\ lastResponse' = Unauthorized
            /\ UNCHANGED <<datasets, files, lastClear, created>>
       ELSE /\ files' = AfterRemovals(failing, datasets, files)
            /\ lastClear' = Clear(failing, datasets, files)
            /\ created' = 0
            /\ datasets' = <<>>
            /\ lastResponse' = Reply(200, "", <<"All history cleared successfully">>)
    /\ UNCHANGED <<clock, figures, lastCharts, clientVars, stepVars, uiVars>>

\* Something other than the views removes a file of the upload directory (the
\* case the FileNotFoundError branches of summary and report are written for).
ExternalRemove(path) ==
    /\ files[path] # Missing
    /\ files' = [files EXCEPT ![path] = Missing]
    /\ lastRequest' = HttpRequest("", "<external>", FALSE, NoFile)
    /\ lastResponse' = NoReply
    /\ UNCHANGED <<datasets, clock, lastClear, created, figures, lastCharts,
                   clientVars, stepVars, uiVars>>

(***************************************************************************)
(* SummaryAPI.get and PDFReportAPIView.get: the latest dataset             *)
(***************************************************************************)
\* The record created first instead of the one created last.
Latest_oldest(table) == First(OrderByUploadedAtAsc(Records(table)))

\* Dataset.objects.order_by('-uploaded_at').first()
Latest(table) == First(OrderByUploadedAtDesc(Records(table)))

\* pd.read_csv(dataset.file_name)
ReadCsv(path) ==
    IF files[path] = Missing THEN "FileNotFoundError"
    ELSE IF ~files[path].parsable THEN "Exception"
    ELSE "ok"

\* total_rows = len(df)
TotalRows(table) == Len(table.rows)

RECURSIVE Sum(_)
Sum(seq) == IF seq = <<>> THEN 0 ELSE seq[1] + Sum(Tail(seq))

\* round(x, 2) of the fraction num/den, in hundredths, ties to the even
\* hundredth (num >= 0, den > 0).
Round2(num, den) ==
    LET q == (num * 100) \div den
        r == (num * 100) % den
    IN  IF 2 * r > den THEN q + 1
        ELSE IF 2 * r < den THEN q
        ELSE IF q % 2 = 0 THEN q ELSE q + 1

\* The cells of the three numeric columns as read_csv leaves them: a whole
\* number >= 0, NaN for an empty cell, Text for a cell that is no number.
NaN == -1
Text == -2
IsNumber(cell) == cell >= 0
Numbers(column) == SelectSeq(column, IsNumber)
HasText(column) == \E i \in 1..Len(column) : column[i] = Text

Flowrates(table) == [i \in 1..Len(table.rows) |-> table.rows[i].flowrate]
Pressures(table) == [i \in 1..Len(table.rows) |-> table.rows[i].pressure]
Temperatures(table) == [i \in 1..Len(table.rows) |-> table.rows[i].temperature]

\* The mean that cuts the third decimal off instead of rounding.
Mean2_truncating(column) ==
    IF Numbers(column) = <<>> THEN NaN
    ELSE (Sum(Numbers(column)) * 100) \div Len(Numbers(column))

\* round(df[column].mean(), 2), in hundredths: mean() passes over the empty
\* cells and is NaN when the column holds no number; round keeps NaN.
Mean2(column) ==
    IF Numbers(column) = <<>> THEN NaN
    ELSE Round2(Sum(Numbers(column)), Len(Numbers(column)))

\* mean() raises TypeError on a column that holds text, which no handler
\* catches: the request ends in a server error.
AggregationFails(table) ==
    HasText(Flowrates(table)) \/ HasText(Pressures(table)) \/ HasText(Temperatures(table))

\* The JSON renderer refuses NaN: a summary with a NaN average raises
\* ValueError when the response is rendered.
Renderable(averages) ==
    averages.flowrate # NaN /\ averages.pressure # NaN /\ averages.temperature # NaN

\* df["Type"]: the cells that hold a value ("" is an empty cell, which
\* value_counts drops).
IsValue(type) == type # ""
Types(table) == SelectSeq([i \in 1..Len(table.rows) |-> table.rows[i].type], IsValue)

Occurrences(seq, x) == Cardinality({i \in 1..Len(seq) : seq[i] = x})

\* The distinct values of a sequence in the order of their first occurrence.
RECURSIVE FirstSeen(_, _)
FirstSeen(seq, seen) ==
    IF seq = <<>> THEN <<>>
    ELSE IF seq[1] \in seen THEN FirstSeen(Tail(seq), seen)
    ELSE <<seq[1]>> \o FirstSeen(Tail(seq), seen \cup {seq[1]})

\* The counts in the order of `order`, not sorted by count.
ByCountDesc_firstSeen(cells, order, done) ==
    [i \in 1..Len(order) |-> [type |-> order[i], count |-> Occurrences(cells, order[i])]]

\* The values of `order` not yet in `done`, largest count first, equal counts
\* in the order of `order`.
RECURSIVE ByCountDesc(_, _, _)
ByCountDesc(cells, order, done) ==
    LET left == {i \in 1..Len(order) : order[i] \notin done}
    IN  IF left = {} THEN <<>>
        ELSE LET i == CHOOSE a \in left :
                          \A b \in left :
                              \/ Occurrences(cells, order[a]) > Occurrences(cells, order[b])
                              \/ /\ Occurrences(cells, order[a]) = Occurrences(cells, order[b])
                                 /\ a <= b
             IN  <<[type |-> order[i], count |-> Occurrences(cells, order[i])]>>
                 \o ByCountDesc(cells, order, done \cup {order[i]})

\* df["Type"].value_counts().to_dict(): the counts of the distinct values,
\* most frequent first, as the ordered items of the dict.
ValueCounts(table) == ByCountDesc(Types(table), FirstSeen(Types(table), {}), {})

Keys(items) == [i \in 1..Len(items) |-> items[i].type]
Values(items) == [i \in 1..Len(items) |-> items[i].count]

\* The summary dict of SummaryAPI.get (colours left out).
Summary(table) ==
    [total_rows |-> TotalRows(table),
     averages |-> [flowrate |-> Mean2(Flowrates(table)),
                   pressure |-> Mean2(Pressures(table)),
                   temperature |-> Mean2(Temperatures(table))],
     averages_chart |-> [labels |-> <<"Flowrate", "Pressure", "Temperature">>,
                         data |-> <<Mean2(Flowrates(table)), Mean2(Pressures(table)),
                                    Mean2(Temperatures(table))>>],
     equipment_types_chart |-> [labels |-> Keys(ValueCounts(table)),
                                data |-> Values(ValueCounts(table))],
     equipment_type_counts |-> ValueCounts(table)]

SummaryAPI_get(authed) ==
    /\ lastRequest' = HttpRequest("GET", "/api/summary/", authed, NoFile)
    /\ lastResponse' =
          IF ~authed THEN Unauthorized
          ELSE IF Latest(datasets) = NoDataset
          THEN Reply(404, NoDatasetError, <<>>)
          ELSE IF ReadCsv(Latest(datasets).file_name) = "FileNotFoundError"
          THEN Reply(404, "CSV file not found on server.", <<>>)
          ELSE IF ReadCsv(Latest(datasets).file_name) = "Exception"
          THEN Reply(500, "Error reading CSV file: ", <<>>)
          ELSE IF AggregationFails(files[Latest(datasets).file_name])
          THEN ServerError
          ELSE IF ~Renderable(Summary(files[Latest(datasets).file_name]).averages)
          THEN ServerError
          ELSE Reply(200, "", Summary(files[Latest(datasets).file_name]))
    /\ UNCHANGED <<datasets, files, clock, lastClear, created, figures, lastCharts,
                   clientVars, stepVars, uiVars>>

\* The statistics PDFReportAPIView.get computes before it lays out the PDF.
ReportStatistics(table) ==
    [total_rows |-> TotalRows(table),
     averages |-> [flowrate |-> Mean2(Flowrates(table)),
                   pressure |-> Mean2(Pressures(table)),
                   temperature |-> Mean2(Temperatures(table))],
     type_counts |-> ValueCounts(table)]

\* How a chart-rendering call ends: it returns the image, plt.subplots raises
\* (no figure was made), or a statement between plt.subplots and plt.close
\* raises (drawing, tight_layout, savefig).
ChartOutcomes == {"image", "subplots raises", "drawing raises"}
\* The charts of a report that did not get as far as the charts count as
\* rendered: nothing was left behind.
Rendered == <<"image", "image">>

\* The figures a rendering call leaves open: plt.close(fig) is reached only
\* when nothing raised before it.
LeftOpen(outcome) == IF outcome = "drawing raises" THEN 1 ELSE 0

\* The flowables of the PDF in the order they are appended (spacers, rules
\* and headings left out).
Section(name) == <<"section", name>>

\* A chart in the report: its image, or the paragraph
\* "[Chart could not be generated: ...]" with the text of the exception.
ChartElement(name, outcome) ==
    IF outcome = "image" THEN <<"image", name>> ELSE <<"placeholder", outcome>>

\* The elements of a report whose second chart is left out when the first
\* one failed.
ReportElements_stopsAfterFailure(bar, pie) ==
    <<Section("title"), Section("timestamp"), Section("overview"), Section("statistics"),
      ChartElement("bar", bar)>>
    \o (IF bar = "image" THEN <<ChartElement("pie", pie)>> ELSE <<>>)
    \o <<Section("distribution"), Section("footer")>>

ReportElements(bar, pie) ==
    <<Section("title"), Section("timestamp"), Section("overview"), Section("statistics"),
      ChartElement("bar", bar), ChartElement("pie", pie),
      Section("distribution"), Section("footer")>>

\* The PDF, stood for by the path it was made from, its statistics and its
\* elements.
Report(path, table, bar, pie) ==
    [source |-> path,
     statistics |-> ReportStatistics(table),
     elements |-> ReportElements(bar, pie)]

\* The request gets as far as the charts.
ReachesCharts(authed) ==
    /\ authed
    /\ Latest(datasets) # NoDataset
    /\ ReadCsv(Latest(datasets).file_name) = "ok"
    /\ ~AggregationFails(files[Latest(datasets).file_name])

\* get: `bar` and `pie` are how the two rendering calls end.
PDFReportAPIView_get(authed, bar, pie) ==
    /\ lastRequest' = HttpRequest("GET", "/api/report/", authed, NoFile)
    /\ lastResponse' =
          IF ~authed THEN Unauthorized
          ELSE IF Latest(datasets) = NoDataset
          THEN Reply(404, NoDatasetError, <<>>)
          ELSE IF ReadCsv(Latest(datasets).file_name) = "FileNotFoundError"
          THEN Reply(404, "CSV file not found on server.", <<>>)
          ELSE IF ReadCsv(Latest(datasets).file_name) = "Exception"
          THEN Reply(500, "Error reading CSV file: ", <<>>)
          ELSE IF AggregationFails(files[Latest(datasets).file_name])
          THEN ServerError
          ELSE Reply(200, "", Report(Latest(datasets).file_name,
                                     files[Latest(datasets).file_name], bar, pie))
    /\ IF ReachesCharts(authed)
       THEN /\ figures' = figures + LeftOpen(bar) + LeftOpen(pie)
            /\ lastCharts' = <<bar, pie>>
       ELSE /\ figures' = figures
            /\ lastCharts' = Rendered
    /\ UNCHANGED <<datasets, files, clock, lastClear, created, clientVars, stepVars, uiVars>>

(***************************************************************************)
(* The desktop application (main.py, dashboard.py)                         *)
(***************************************************************************)
\* The fields of a DashboardWindow the handlers read and write, whether it is
\* open, whether main.py has connected its logout_requested signal, and what
\* the summary cards and charts were last drawn from (`cards`).
\* summary_data is None (NoData) or the dict of a summary answer.
NoData == <<>>
Data(body) == <<body>>

NewDashboard ==
    [open |-> TRUE, connected |-> FALSE, summary_data |-> NoData,
     show_results |-> FALSE, history_data |-> <<>>, cards |-> NoData]

\* Application.dashboard_window is None.
NoWindow == [NewDashboard EXCEPT !.open = FALSE]

\* What a handler ran on: the upload's file, the status of its own request
\* (0: none was answered) and the requests it made through the client.
Handled(name, file, status, requests) ==
    [name |-> name, file |-> file, status |-> status, requests |-> requests]
NoHandler == Handled("none", NoFile, 0, <<>>)

\* The methods class APIClient defines.
APIClientMethods == {"login", "logout", "refresh_access_token", "get", "post"}

\* What get or post gives back to a handler, with the access token the client
\* holds afterwards: the outcome of the first transmission, or, when that is a
\* 401 and there is a refresh token, the same 401 if the refresh fails and the
\* outcome of the second transmission if it succeeds. A client without a
\* token sends no Authorization header, which the protected views answer 401.
\* The handlers tell 200, 401, any other status and an exception apart.
ApiCall(o, token) == [kind |-> o.kind, status |-> o.status, access |-> token]
HandlerOutcomes ==
    {Answered(200, None, None), Answered(401, None, None), Answered(500, None, None),
     Raised("ConnectionError")}
Refreshed(token) == <<"access", (token[2] % MaxToken) + 1>>
ApiCalls(access, refresh) ==
    {ApiCall(o, access) :
        o \in {c \in HandlerOutcomes :
                  /\ ~(c.kind = "response" /\ ShouldRefresh(c.status, refresh))
                  /\ (~Truthy(access) /\ c.kind = "response") => c.status = 401}}
    \cup (IF Truthy(refresh)
          THEN {ApiCall(Answered(401, None, None), access)}
               \cup {ApiCall(o, IF Truthy(access) THEN Refreshed(access)
                                ELSE <<"access", 1>>) : o \in HandlerOutcomes}
          ELSE {})

\* The application as a handler sees and changes it: the client's tokens, the
\* login window and the dashboard the handler runs in.
World(access, refresh, n, login, win) ==
    [access |-> access, refresh |-> refresh, logouts |-> n, login |-> login,
     win |-> win]

\* api.logout()
logout(w) ==
    [w EXCEPT !.access = None, !.refresh = None,
              !.logouts = IF @ < 2 THEN @ + 1 ELSE 2]

\* Application.show_login: the dashboard is closed, a login window shown.
show_login(w) == [w EXCEPT !.win.open = FALSE, !.login = TRUE]

\* self.logout_requested.emit(): runs on_logout if main.py has connected it.
emit_logout_requested(w) == IF w.win.connected THEN show_login(w) ELSE w

\* DashboardWindow._handle_auth_error
handle_auth_error(w) == emit_logout_requested(logout(w))

\* The client after a call: a refresh inside it has replaced the access token.
After(w, o) == [w EXCEPT !.access = o.access]

\* DashboardWindow._fetch_summary_silent: only a 200 replaces summary_data.
fetch_summary_silent(w, o, body) ==
    IF o.kind = "raise" THEN After(w, o)
    ELSE IF o.status = 200 THEN [After(w, o) EXCEPT !.win.summary_data = Data(body)]
    ELSE IF o.status = 401 THEN handle_auth_error(After(w, o))
    ELSE After(w, o)

\* DashboardWindow._fetch_history
fetch_history(w, o, body) ==
    IF o.kind = "raise" THEN After(w, o)
    ELSE IF o.status = 200 THEN [After(w, o) EXCEPT !.win.history_data = body]
    ELSE IF o.status = 401 THEN handle_auth_error(After(w, o))
    ELSE After(w, o)

\* DashboardWindow._toggle_results: showing draws the cards and charts from
\* summary_data.
toggle_results(w) ==
    IF w.win.summary_data = NoData THEN w
    ELSE IF ~w.win.show_results
    THEN [w EXCEPT !.win.show_results = TRUE, !.win.cards = w.win.summary_data]
    ELSE [w EXCEPT !.win.show_results = FALSE]

\* The bodies the handlers read from 200 answers.
Summaries == {Summary(ExampleTable), Summary(OtherTable)}
Histories == {<<>>, <<"a.csv">>}

\* What the sign-in can meet, and the files the upload dialog can give.
SignIns ==
    {Answered(200, <<"access", 1>>, <<"refresh", 1>>), Answered(401, None, None),
     Raised("ConnectionError")}
ChosenFiles == [name : {"a.csv"}, content : {ExampleTable, OtherTable}]

\* The world a handler starts in and the state it leaves.
Now == World(access_token, refresh_token, logouts, login_window, dashboard_window)
Leaves(w, h) ==
    /\ access_token' = w.access
    /\ refresh_token' = w.refresh
    /\ logouts' = w.logouts
    /\ login_window' = w.login
    /\ dashboard_window' = (IF w.win.open THEN w.win ELSE NoWindow)
    /\ handled' = h
    /\ UNCHANGED <<pc, op, call, start, sent, rcvd, result, serverVars, stepVars>>

\* LoginWindow's sign-in handler: api.login, and on success login_successful,
\* which runs Application.on_login_success: the login window is closed, the
\* DashboardWindow constructed (its __init__ ends with _load_initial_data),
\* its logout_requested connected, and the window shown.
LoginWindow_login(o) ==
    /\ login_window
    /\ ~dashboard_window.open
    /\ IF o.kind = "response" /\ o.status = 200
       THEN /\ everLoggedIn' = TRUE
            /\ \E s \in ApiCalls(o.access, o.refresh), sb \in Summaries :
                 LET w1 == fetch_summary_silent(
                               World(o.access, o.refresh, 0, FALSE, NewDashboard),
                               s, sb)
                 IN  \E h \in ApiCalls(w1.access, w1.refresh), hb \in Histories :
                       LET w2 == fetch_history(w1, h, hb)
                       IN  Leaves([w2 EXCEPT !.win.connected = TRUE],
                                  Handled("on_login_success", NoFile, 200,
                                          <<"POST /api/token/", "GET /api/summary/",
                                            "GET /api/history/">>))
       ELSE /\ UNCHANGED everLoggedIn
            /\ Leaves(Now, Handled("login", NoFile, o.status, <<"POST /api/token/">>))

\* DashboardWindow._upload_csv with a file chosen.
upload_csv(file) ==
    /\ dashboard_window.open
    /\ \E p \in ApiCalls(access_token, refresh_token) :
         LET w0 == After(Now, p)
         IN  IF p.kind = "raise"
             THEN Leaves(w0, Handled("_upload_csv", file, 0, <<"POST /api/upload/">>))
             ELSE IF p.status = 200
             THEN \E s \in ApiCalls(w0.access, w0.refresh) :
                    LET w1 == fetch_summary_silent(w0, s, Summary(file.content))
                    IN  \E h \in ApiCalls(w1.access, w1.refresh) :
                          LET w2 == fetch_history(w1, h, <<file.name>>)
                              w3 == IF w2.win.summary_data # NoData
                                       /\ ~w2.win.show_results
                                    THEN toggle_results(w2) ELSE w2
                          IN  Leaves(w3, Handled("_upload_csv", file, 200,
                                                 <<"POST /api/upload/",
                                                   "GET /api/summary/",
                                                   "GET /api/history/">>))
             ELSE IF p.status = 401
             THEN Leaves(handle_auth_error(w0),
                         Handled("_upload_csv", file, 401, <<"POST /api/upload/">>))
             ELSE Leaves(w0, Handled("_upload_csv", file, p.status,
                                     <<"POST /api/upload/">>))
    /\ UNCHANGED everLoggedIn

\* The View Results / Hide Results button.
view_btn_clicked ==
    /\ dashboard_window.open
    /\ Leaves(toggle_results(Now), Handled("_toggle_results", NoFile, 0, <<>>))
    /\ UNCHANGED everLoggedIn

\* DashboardWindow._download_pdf with a path chosen.
download_pdf ==
    /\ dashboard_window.open
    /\ dashboard_window.summary_data # NoData
    /\ \E r \in ApiCalls(access_token, refresh_token) :
         Leaves(IF r.kind = "response" /\ r.status = 401
                THEN handle_auth_error(After(Now, r)) ELSE After(Now, r),
                Handled("_download_pdf", NoFile, r.status, <<"GET /api/report/">>))
    /\ UNCHANGED everLoggedIn

\* What a 200 of the clear makes of the dashboard.
Cleared(w) ==
    [w EXCEPT !.win.history_data = <<>>, !.win.summary_data = NoData,
              !.win.show_results = FALSE]

\* DashboardWindow._clear_history with the question answered Yes: api.delete is
\* looked up on the client; an attribute the class does not define raises
\* AttributeError inside the try, which the handler's `except Exception`
\* turns into an error dialog.
clear_history ==
    /\ dashboard_window.open
    /\ IF "delete" \notin APIClientMethods
       THEN Leaves(Now, Handled("_clear_history", NoFile, 0, <<>>))
       ELSE \E r \in ApiCalls(access_token, refresh_token) :
              Leaves(IF r.kind = "raise" THEN After(Now, r)
                     ELSE IF r.status = 200 THEN Cleared(After(Now, r))
                     ELSE IF r.status = 401 THEN handle_auth_error(After(Now, r))
                     ELSE After(Now, r),
                     Handled("_clear_history", NoFile, r.status,
                             <<"DELETE /api/history/">>))
    /\ UNCHANGED everLoggedIn

\* DashboardWindow._handle_logout with the question answered Yes.
handle_logout ==
    /\ dashboard_window.open
    /\ Leaves(emit_logout_requested(logout(Now)),
              Handled("_handle_logout", NoFile, 0, <<>>))
    /\ UNCHANGED everLoggedIn

(***************************************************************************)
(* UploadCSV.post and HistoryAPI.delete, statement by statement            *)
(***************************************************************************)
\* Two requests handled at the same time interleave at the statements that
\* touch the upload directory and the Dataset table: the upload writes the
\* file (views.py 141-143) and then creates the record (146); the clear reads
\* the records (284-285), removes the file of each of them (285-290) and then
\* deletes every record of the table (293).
Resting ==
    [upload |-> [at |-> "idle", file |-> NoFile],
     clear |-> [at |-> "idle", pending |-> <<>>, runs |-> 0]]

\* The paths of the records, in the order the loop of delete meets them.
FileNamesOf(table) == [i \in 1..Len(table) |-> table[i].file_name]

\* An accepted upload arrives and writes its file.
Upload_writeFile(file) ==
    /\ running.upload.at \in {"idle", "done"}
    /\ file # NoFile
    /\ file.content.parsable
    /\ FirstMissing(file.content.columns, 1) = 0
    /\ clock < MaxRaced
    /\ files' = [files EXCEPT ![file.name] = file.content]
    /\ running' = [running EXCEPT !.upload = [at |-> "written", file |-> file]]
    /\ UNCHANGED <<datasets, clock, lastRequest, lastResponse, lastClear, created,
                   figures, lastCharts, clientVars, uiVars>>

\* The upload creates its record and answers.
Upload_createRecord ==
    /\ running.upload.at = "written"
    /\ clock' = clock + 1
    /\ datasets' = Append(datasets, Dataset(running.upload.file.name, clock + 1))
    /\ lastRequest' = HttpRequest("POST", "/api/upload/", TRUE, running.upload.file)
    /\ lastResponse' = Reply(200, "", <<"CSV uploaded successfully">>)
    /\ lastClear' = NoClear
    /\ created' = created + 1
    /\ running' = [running EXCEPT !.upload.at = "done"]
    /\ UNCHANGED <<files, figures, lastCharts, clientVars, uiVars>>

\* A clear arrives; its loop starts and the queryset reads the records there are.
Clear_readRecords ==
    /\ running.clear.at \in {"idle", "done"}
    /\ running.clear.runs < MaxRaced
    /\ running' = [running EXCEPT !.clear = [at |-> "removing",
                                             pending |-> FileNamesOf(datasets),
                                             runs |-> @.runs + 1]]
    /\ lastClear' = Clear({}, datasets, files)
    /\ UNCHANGED <<datasets, files, clock, lastRequest, lastResponse, created,
                   figures, lastCharts, clientVars, uiVars>>

\* One turn of the loop: the file of the next record is removed if it exists.
Clear_removeFile ==
    /\ running.clear.at = "removing"
    /\ running.clear.pending # <<>>
    /\ files' = [files EXCEPT ![Head(running.clear.pending)] = Missing]
    /\ running' = [running EXCEPT !.clear.pending = Tail(@)]
    /\ UNCHANGED <<datasets, clock, lastRequest, lastResponse, lastClear, created,
                   figures, lastCharts, clientVars, uiVars>>

\* After the loop every record the table holds by now is deleted, and the
\* clear answers.
Clear_deleteRecords ==
    /\ running.clear.at = "removing"
    /\ running.clear.pending = <<>>
    /\ datasets' = <<>>
    /\ created' = 0
    /\ lastRequest' = HttpRequest("DELETE", "/api/history/", TRUE, NoFile)
    /\ lastResponse' = Reply(200, "", <<"All history cleared successfully">>)
    /\ running' = [running EXCEPT !.clear.at = "done"]
    /\ UNCHANGED <<files, clock, lastClear, figures, lastCharts, clientVars, uiVars>>

(***************************************************************************)
(* Specifications                                                          *)
(***************************************************************************)
InitServerVars ==
    /\ datasets = <<>>
    /\ files = [f \in FileNames |-> Missing]
    /\ clock = 0
    /\ lastRequest = NoRequest
    /\ lastResponse = NoReply
    /\ lastClear = NoClear
    /\ created = 0
    /\ figures = 0
    /\ lastCharts = Rendered

InitStepVars == running = Resting

InitUiVars ==
    /\ login_window = TRUE
    /\ dashboard_window = NoWindow
    /\ handled = NoHandler

Init == InitClientVars /\ InitServerVars /\ InitStepVars /\ InitUiVars

NextClient ==
    \/ \E o \in LoginOutcomes : Login(o)
    \/ Logout
    \/ Get
    \/ \E hasFiles \in BOOLEAN : Post(hasFiles)
    \/ \E o \in CallOutcomes : RecvFirst(o)
    \/ \E o \in RefreshOutcomes : RecvRefresh(o)
    \/ \E o \in CallOutcomes : RecvRetry(o)

NextServer ==
    \/ \E authed \in BOOLEAN, file \in UploadedFiles \cup {NoFile} :
          UploadCSV_post(authed, file)
    \/ \E authed \in BOOLEAN : HistoryAPI_get(authed)
    \/ \E authed \in BOOLEAN, failing \in SUBSET FileNames :
          HistoryAPI_delete(authed, failing)
    \/ \E authed \in BOOLEAN : SummaryAPI_get(authed)
    \/ \E authed \in BOOLEAN : PDFReportAPIView_get(authed, "image", "image")

\* The store with a few uploads of one content, history clears whose removals
\* may fail, and files that vanish from the upload directory.
EnvFiles == [name : FileNames, content : {ExampleTable}]

NextServerEnv ==
    \/ \E authed \in BOOLEAN, file \in EnvFiles :
          clock < MaxEnvUploads /\ UploadCSV_post(authed, file)
    \/ \E authed \in BOOLEAN, failing \in SUBSET FileNames :
          HistoryAPI_delete(authed, failing)
    \/ \E authed \in BOOLEAN : SummaryAPI_get(authed)
    \/ \E path \in FileNames : ExternalRemove(path)

\* Uploads of one-row tables under every set of headers drawn from the required
\* columns and two of them written in lower case.
OtherHeaders == {"pressure", "type"}
HeaderTables ==
    {[parsable |-> TRUE, columns |-> c, rows |-> <<Row("P-1", "Pump", 10, 2, 30)>>] :
        c \in SUBSET (AllColumns \cup OtherHeaders)}

NextValidate ==
    \E authed \in BOOLEAN, table \in HeaderTables :
        clock < MaxValidated /\ UploadCSV_post(authed, [name |-> "a.csv", content |-> table])

\* The aggregation of one stored table: the store right after the upload of a
\* table of up to MaxRows rows, whose Type cells may be empty, and reads of it.
RECURSIVE SeqsUpTo(_, _)
SeqsUpTo(S, n) ==
    IF n = 0 THEN {<<>>}
    ELSE SeqsUpTo(S, n - 1) \cup
         {Append(q, x) : q \in {r \in SeqsUpTo(S, n - 1) : Len(r) = n - 1}, x \in S}

CellTypes == {"Pump", "Valve", ""}
CellNumbers == {<<10, 2, 30>>, <<20, 4, 40>>, <<5, 1, 20>>}
GeneratedRows == {Row("E", type, n[1], n[2], n[3]) : type \in CellTypes, n \in CellNumbers}
GeneratedTables ==
    {[parsable |-> TRUE, columns |-> AllColumns, rows |-> rows] :
        rows \in SeqsUpTo(GeneratedRows, MaxRows) \ {<<>>}} \cup {ExampleTable}

Uploaded(path, table) ==
    /\ files = [f \in FileNames |-> IF f = path THEN table ELSE Missing]
    /\ datasets = <<Dataset(path, 1)>>
    /\ clock = 1
    /\ created = 1
    /\ figures = 0
    /\ lastCharts = Rendered
    /\ lastRequest = HttpRequest("POST", "/api/upload/", TRUE,
                                 [name |-> path, content |-> table])
    /\ lastResponse = Reply(200, "", <<"CSV uploaded successfully">>)
    /\ lastClear = NoClear

InitAggregate ==
    /\ InitClientVars
    /\ InitStepVars
    /\ InitUiVars
    /\ \E table \in GeneratedTables : Uploaded("a.csv", table)

NextAggregate ==
    \/ SummaryAPI_get(TRUE)
    \/ PDFReportAPIView_get(TRUE, "image", "image")

\* Uploads of tables that have the five columns and cells that are no numbers,
\* or no numbers at all in a column, and the reads that follow them.
TextTable ==
    [parsable |-> TRUE, columns |-> AllColumns,
     rows |-> <<Row("P-1", "Pump", Text, 2, 30), Row("V-1", "Valve", 5, 1, 20)>>]
EmptyColumnTable ==
    [parsable |-> TRUE, columns |-> AllColumns,
     rows |-> <<Row("P-1", "Pump", NaN, 2, 30), Row("V-1", "Valve", NaN, 1, 20)>>]
GapTable ==
    [parsable |-> TRUE, columns |-> AllColumns,
     rows |-> <<Row("P-1", "Pump", NaN, 2, 30), Row("V-1", "Valve", 5, 1, 20)>>]
IngestedFiles ==
    [name : FileNames, content : {ExampleTable, TextTable, EmptyColumnTable, GapTable}]

NextIngest ==
    \/ \E authed \in BOOLEAN, file \in IngestedFiles :
          clock < MaxIngested /\ UploadCSV_post(authed, file)
    \/ \E authed \in BOOLEAN : SummaryAPI_get(authed)
    \/ \E authed \in BOOLEAN : PDFReportAPIView_get(authed, "image", "image")

\* Reports whose charts may fail to render, over a store of at most
\* MaxReported uploads.
NextReport ==
    \/ \E authed \in BOOLEAN, file \in EnvFiles :
          clock < MaxReported /\ UploadCSV_post(authed, file)
    \/ \E authed \in BOOLEAN, bar \in ChartOutcomes, pie \in ChartOutcomes :
          figures < MaxFigures /\ PDFReportAPIView_get(authed, bar, pie)

\* The store under uploads of two contents, history clears whose removals may
\* fail, and summaries; nothing but the views touches the upload directory.
StoredFiles == [name : FileNames, content : {ExampleTable, OtherTable}]

NextStore ==
    \/ \E authed \in BOOLEAN, file \in StoredFiles :
          clock < MaxStored /\ UploadCSV_post(authed, file)
    \/ \E authed \in BOOLEAN, failing \in SUBSET FileNames :
          HistoryAPI_delete(authed, failing)
    \/ \E authed \in BOOLEAN : SummaryAPI_get(authed)

\* An upload and a clear that run at the same time, over a store that holds
\* one dataset.
InitConcurrent ==
    /\ InitClientVars
    /\ InitStepVars
    /\ InitUiVars
    /\ Uploaded("a.csv", ExampleTable)

NextConcurrent ==
    \/ \E file \in StoredFiles : Upload_writeFile(file)
    \/ Upload_createRecord
    \/ Clear_readRecords
    \/ Clear_removeFile
    \/ Clear_deleteRecords

\* The desktop application: the login window, then the dashboard's buttons.
NextDashboard ==
    \/ \E o \in SignIns : LoginWindow_login(o)
    \/ \E file \in ChosenFiles : upload_csv(file)
    \/ view_btn_clicked
    \/ download_pdf
    \/ clear_history
    \/ handle_logout

SpecClient == Init /\ [][NextClient]_vars
SpecServer == Init /\ [][NextServer]_vars
SpecServerEnv == Init /\ [][NextServerEnv]_vars
SpecValidate == Init /\ [][NextValidate]_vars
SpecAggregate == InitAggregate /\ [][NextAggregate]_vars
SpecIngest == Init /\ [][NextIngest]_vars
SpecReport == Init /\ [][NextReport]_vars
SpecStore == Init /\ [][NextStore]_vars
SpecConcurrent == InitConcurrent /\ [][NextConcurrent]_vars
SpecDashboard == Init /\ [][NextDashboard]_vars

(***************************************************************************)
(* Properties of APIClient (checked under SpecClient)                      *)
(***************************************************************************)
IsCall == op \in {"get", "post"}
CallDone == IsCall /\ pc = "returned"

\* Number of transmissions of the current operation that go to `target`.
Transmissions(target) == Cardinality({i \in 1..Len(sent) : sent[i].to = target})

Is401(o) == o.kind = "response" /\ o.status = 401
Is200(o) == o.kind = "response" /\ o.status = 200

\* The call got 401 first while it held a refresh token.
RefreshCase == IsCall /\ Len(rcvd) >= 1 /\ Is401(rcvd[1]) /\ Truthy(start[2])

\* C1: a call that gets 401 while a refresh token is held, whose refresh then
\* succeeds and whose retry succeeds, has sent exactly one refresh request and
\* transmitted the request exactly twice, the retry carrying the new access
\* token, and leaves the client authenticated with that token.
C1_RefreshThenRetry ==
    (CallDone /\ RefreshCase /\ Len(rcvd) = 3 /\ Is200(rcvd[2]) /\ Is200(rcvd[3])) =>
        /\ Transmissions("refresh") = 1
        /\ Transmissions("api") = 2
        /\ Len(sent) = 3
        /\ sent[2] = RefreshRequest(start[2])
        /\ sent[3].to = "api"
        /\ sent[3].auth = Bearer(rcvd[2].access)
        /\ access_token = rcvd[2].access
        /\ is_authenticated(access_token)

C1_Witness ==
    /\ CallDone /\ RefreshCase /\ Len(rcvd) = 3 /\ Is200(rcvd[2]) /\ Is200(rcvd[3])
    /\ rcvd[2].access # start[1]
    /\ start[1] # None

\* C2: whatever the answers, one call sends at most one refresh request and
\* transmits its request at most twice; a retry answered 401 goes back to the
\* caller as it is, with no second refresh and no third transmission.
C2_OneCycle ==
    IsCall =>
        /\ Transmissions("refresh") <= 1
        /\ Transmissions("api") <= 2
        /\ (Len(rcvd) >= 3 /\ Is401(rcvd[3])) =>
              /\ pc = "returned"
              /\ Len(sent) = 3
              /\ result = Returned(Response(401, 2))

C2_Witness == CallDone /\ Len(rcvd) = 3 /\ Is401(rcvd[3])

\* C3: when the call got 401 with a refresh token held and the refresh failed
\* (an answer other than 200, or an exception), the request is not transmitted
\* again and the caller gets the first 401 response, nothing being raised.
C3_RefreshFails ==
    (RefreshCase /\ Len(rcvd) >= 2 /\ ~Is200(rcvd[2])) =>
        /\ pc = "returned"
        /\ Len(rcvd) = 2
        /\ Transmissions("api") = 1
        /\ result = Returned(Response(401, 1))

C3_Witness ==
    /\ CallDone /\ RefreshCase /\ Len(rcvd) = 2
    /\ rcvd[2].kind = "raise"
    /\ result.kind = "return"

\* C4: a refresh is attempted only when the first answer is 401 and a refresh
\* token is held; after any other first outcome the request has been
\* transmitted once, no refresh was sent, the tokens are what they were and
\* the caller gets that outcome as it is.
C4_OnlyOn401 ==
    IsCall =>
        /\ Transmissions("refresh") > 0 => RefreshCase
        /\ (Len(rcvd) >= 1 /\ ~RefreshCase) =>
              /\ pc = "returned"
              /\ Len(sent) = 1
              /\ sent[1].to = "api"
              /\ <<access_token, refresh_token>> = start
              /\ result = IF rcvd[1].kind = "raise"
                          THEN Propagated(rcvd[1].exc)
                          ELSE Returned(Response(rcvd[1].status, 1))

C4_Witness ==
    /\ CallDone /\ Len(rcvd) = 1 /\ Is401(rcvd[1])
    /\ start[2] = None
    /\ everLoggedIn

\* C5: a login answered 200 stores the access and the refresh token of the
\* answer and leaves the client authenticated; until a login has succeeded
\* both tokens are absent and is_authenticated is false.
C5_LoginStoresTokens ==
    /\ (op = "login" /\ Is200(rcvd[1])) =>
          /\ access_token = rcvd[1].access
          /\ refresh_token = rcvd[1].refresh
          /\ is_authenticated(access_token)
          /\ result.success
    /\ ~everLoggedIn =>
          /\ access_token = None
          /\ refresh_token = None
          /\ ~is_authenticated(access_token)

C5_Witness ==
    /\ op = "login" /\ Is200(rcvd[1])
    /\ start[2] # None
    /\ start[2] # refresh_token

\* The reason a login result gives, read off its message.
ReasonOf(message) ==
    IF message = <<"Invalid username or password">> THEN "invalid_credentials"
    ELSE IF message = <<"Cannot connect to server">> THEN "unreachable"
    ELSE IF message = <<"Request timed out">> THEN "timeout"
    ELSE "other"

\* The reason a failed token request calls for (a connect timeout is a
\* connection failure).
ExpectedReason(o) ==
    IF Is401(o) THEN "invalid_credentials"
    ELSE IF o.kind = "response" THEN "other"
    ELSE IF IsConnectionError(o.exc) THEN "unreachable"
    ELSE IF IsTimeout(o.exc) THEN "timeout"
    ELSE "other"

\* C6: a login that fails (401, another status, a connection error, a timeout,
\* any other exception) leaves both tokens as they were, so an unauthenticated
\* client stays unauthenticated, and returns (never raises) a failure whose
\* reason tells invalid credentials, unreachable, timeout and other apart.
C6_FailedLoginKeepsTokens ==
    (op = "login" /\ ~Is200(rcvd[1])) =>
        /\ <<access_token, refresh_token>> = start
        /\ ~is_authenticated(start[1]) => ~is_authenticated(access_token)
        /\ result.kind = "return"
        /\ ~result.success
        /\ ReasonOf(result.message) = ExpectedReason(rcvd[1])

C6_Witness ==
    /\ op = "login" /\ rcvd[1] = Raised("ReadTimeout")
    /\ start[1] # None
    /\ ReasonOf(result.message) = "timeout"

\* C7: logout leaves the client unauthenticated with both tokens discarded,
\* whatever the state it is called in, also when it is called again; from
\* then until a login succeeds no transmission of a call carries a bearer
\* credential and no refresh request is sent, also on 401.
C7_Logout ==
    /\ op = "logout" =>
          /\ logouts > 0
          /\ access_token = None
          /\ refresh_token = None
          /\ ~is_authenticated(access_token)
    /\ logouts > 0 =>
          /\ access_token = None
          /\ refresh_token = None
          /\ IsCall => \A i \in 1..Len(sent) :
                           sent[i].to = "api" /\ sent[i].auth = NoHeader

C7_Witness ==
    /\ logouts = 2
    /\ everLoggedIn
    /\ CallDone /\ Len(rcvd) = 1 /\ Is401(rcvd[1])

(***************************************************************************)
(* Properties of the history store (checked under SpecServer)              *)
(***************************************************************************)
Answers(method, path) ==
    /\ lastRequest.method = method
    /\ lastRequest.path = path
    /\ lastRequest.authed

\* The entry of the i-th oldest existing record.
EntryOf(i) == [file_name |-> datasets[i].file_name,
               uploaded_at |-> datasets[i].uploaded_at]

\* C8: GET /history answers with min(5, n) entries, n the number of existing
\* records: the most recently created ones, newest first, and count is the
\* number of entries.
C8_RecentFive ==
    Answers("GET", "/api/history/") =>
        LET n == Len(datasets)
            k == IF n < 5 THEN n ELSE 5
            body == lastResponse.body
        IN  /\ lastResponse.status = 200
            /\ body.count = k
            /\ Len(body.datasets) = k
            /\ \A i \in 1..k : body.datasets[i] = EntryOf(n - i + 1)

C8_Witness ==
    /\ Answers("GET", "/api/history/")
    /\ Len(datasets) = 6
    /\ clock > 6
    /\ lastResponse.body.count = 5

\* C9 as stated: after 7 uploads into an empty store the history lists the 4th
\* to the 7th upload, newest first.
C9_FourthToSeventh ==
    (Answers("GET", "/api/history/") /\ Len(datasets) = 7) =>
        lastResponse.body.datasets = <<EntryOf(7), EntryOf(6), EntryOf(5), EntryOf(4)>>

\* C9 amended: after 7 uploads into an empty store the history lists five
\* entries, the 3rd to the 7th upload, newest first.
C9_ThirdToSeventh ==
    (Answers("GET", "/api/history/") /\ Len(datasets) = 7) =>
        lastResponse.body.datasets =
            <<EntryOf(7), EntryOf(6), EntryOf(5), EntryOf(4), EntryOf(3)>>

C9_Witness ==
    /\ Answers("GET", "/api/history/")
    /\ Len(datasets) = 7
    /\ lastResponse.status = 200

\* C10: while no Dataset record exists, at the start or after a clear, there
\* is no latest dataset and GET /summary and GET /report answer 404 "No
\* dataset uploaded yet", not a summary.
C10_NoDataset ==
    /\ Answers("DELETE", "/api/history/") => Latest(datasets) = NoDataset
    /\ datasets = <<>> =>
          /\ Latest(datasets) = NoDataset
          /\ (Answers("GET", "/api/summary/") \/ Answers("GET", "/api/report/")) =>
                lastResponse = Reply(404, NoDatasetError, <<>>)

C10_Witness ==
    /\ datasets = <<>>
    /\ clock > 0
    /\ Answers("GET", "/api/report/")
    /\ lastResponse.status = 404

(***************************************************************************)
(* Properties of the history clear (checked under SpecServerEnv)           *)
(***************************************************************************)
\* C11: a history clear ends with no Dataset record and the success answer,
\* whichever of the files are missing and whichever removals fail.
C11_ClearAlwaysCompletes ==
    Answers("DELETE", "/api/history/") =>
        /\ datasets = <<>>
        /\ lastResponse = Reply(200, "", <<"All history cleared successfully">>)

C11_Witness ==
    /\ Answers("DELETE", "/api/history/")
    /\ \E f, g \in lastClear.referenced :
          /\ f \in lastClear.existed /\ f \in lastClear.failing
          /\ g \notin lastClear.existed
    /\ datasets = <<>>

\* C12: after a history clear no file remains that a record referred to and
\* whose removal did not fail, also when the file of another record was
\* missing or could not be removed.
C12_ClearRemovesEveryFile ==
    Answers("DELETE", "/api/history/") =>
        \A f \in lastClear.referenced \ lastClear.failing : files[f] = Missing

C12_Witness ==
    /\ Answers("DELETE", "/api/history/")
    /\ \E f, g \in lastClear.referenced :
          /\ f \in lastClear.existed /\ f \in lastClear.failing /\ files[f] # Missing
          /\ g \in lastClear.existed /\ g \notin lastClear.failing /\ files[g] = Missing

(***************************************************************************)
(* Properties of the record store (checked under SpecServer)               *)
(***************************************************************************)
UploadAnswers(status) ==
    /\ Answers("POST", "/api/upload/")
    /\ lastResponse.status = status

\* C13: a successful upload adds exactly one record and leaves every record
\* that existed as it was; no other step changes the records except a history
\* clear, which removes them all; so the number of records is the number of
\* successful uploads since the last clear.
C13_RecordsFollowUploads ==
    [][/\ UploadAnswers(200)' =>
           /\ Len(datasets') = Len(datasets) + 1
           /\ SubSeq(datasets', 1, Len(datasets)) = datasets
       /\ ~UploadAnswers(200)' =>
           \/ datasets' = datasets
           \/ Answers("DELETE", "/api/history/")' /\ datasets' = <<>>
       /\ Len(datasets') = created']_vars

C13_Witness ==
    /\ UploadAnswers(200)
    /\ Len(datasets) = 2
    /\ datasets[1].file_name = datasets[2].file_name
    /\ clock > created

\* C15: an upload answered with 400 (no file, a file that does not parse, a
\* missing column) creates no record, writes no file and leaves the latest
\* record the same.
C15_RejectedUploadHasNoEffect ==
    [][UploadAnswers(400)' =>
          /\ datasets' = datasets
          /\ files' = files
          /\ Latest(datasets') = Latest(datasets)]_vars

C15_Witness ==
    /\ UploadAnswers(400)
    /\ lastRequest.file # NoFile
    /\ lastRequest.file.content.parsable
    /\ datasets # <<>>
    /\ files[lastRequest.file.name] # lastRequest.file.content

(***************************************************************************)
(* Summary and report follow the latest upload (checked under SpecServer)  *)
(***************************************************************************)
\* The record created last and the answer computed from its file as it is now.
Newest == datasets[Len(datasets)]

FromNewestFile(body) ==
    IF files[Newest.file_name] = Missing
    THEN Reply(404, "CSV file not found on server.", <<>>)
    ELSE Reply(200, "", body)

AnswersFromNewest ==
    /\ (Answers("GET", "/api/summary/") /\ datasets # <<>>) =>
          lastResponse = FromNewestFile(Summary(files[Newest.file_name]))
    /\ (Answers("GET", "/api/report/") /\ datasets # <<>>) =>
          lastResponse =
             FromNewestFile(Report(Newest.file_name, files[Newest.file_name],
                                   "image", "image"))

\* C19: a summary and a report are computed from the file of the record
\* created last, as the file is at the time of the request: after a second
\* upload the answer is that of the second file, and two summaries with only
\* reads between them are equal.
\* (Every state has a step that leaves it, so the first conjunct speaks of
\* every reachable state.)
C19_ComputedFromLatest ==
    [][/\ AnswersFromNewest
       /\ (Answers("GET", "/api/summary/") /\ Answers("GET", "/api/summary/")') =>
             lastResponse' = lastResponse]_vars

C19_Witness ==
    /\ Answers("GET", "/api/summary/")
    /\ Len(datasets) = 2
    /\ files[datasets[1].file_name] = ExampleTable
    /\ files[datasets[2].file_name] = OtherTable
    /\ lastResponse.status = 200
    /\ lastResponse.body = Summary(OtherTable)
    /\ lastResponse.body # Summary(ExampleTable)

(***************************************************************************)
(* Column validation (checked under SpecValidate)                          *)
(***************************************************************************)
\* The order the columns are named in, and the columns of it that the headers
\* of the uploaded table lack, compared letter for letter.
NamedOrder == <<"Equipment Name", "Type", "Flowrate", "Pressure", "Temperature">>
Lacking == {i \in 1..Len(NamedOrder) : NamedOrder[i] \notin lastRequest.file.content.columns}

LacksColumns ==
    /\ Answers("POST", "/api/upload/")
    /\ lastRequest.file # NoFile
    /\ lastRequest.file.content.parsable
    /\ Lacking # {}

\* C14: an upload that parses and lacks required columns is answered with 400
\* naming the first lacking column in the order Equipment Name, Type,
\* Flowrate, Pressure, Temperature, and only that one; a header that differs
\* in case does not count as the column.
C14_FirstMissingColumn ==
    LacksColumns =>
        \E i \in Lacking :
            /\ \A j \in Lacking : i <= j
            /\ lastResponse = Reply(400, "Missing column: ", <<NamedOrder[i]>>)

C14_Witness ==
    /\ Answers("POST", "/api/upload/")
    /\ lastRequest.file.content.columns =
          {"Equipment Name", "type", "Flowrate", "pressure", "Temperature"}
    /\ lastResponse = Reply(400, "Missing column: ", <<"Type">>)

(***************************************************************************)
(* The statistics of one table (checked under SpecAggregate)               *)
(***************************************************************************)
\* The table the latest record points at, its Type cells top to bottom (an
\* empty cell is ""), and the type counts of an answer.
Stored == files[Newest.file_name]
TypeCells == [i \in 1..Len(Stored.rows) |-> Stored.rows[i].type]
SummaryOk == Answers("GET", "/api/summary/") /\ lastResponse.status = 200
ReportOk == Answers("GET", "/api/report/") /\ lastResponse.status = 200
CountsOf(items) == [i \in 1..Len(items) |-> items[i].count]

\* C16: for every table with the five required columns, also one with empty
\* Type cells, total_rows is the sum of the type counts, in the summary and in
\* the statistics of the report.
C16_RowsEqualCounts ==
    /\ SummaryOk =>
          lastResponse.body.total_rows =
             Sum(CountsOf(lastResponse.body.equipment_type_counts))
    /\ ReportOk =>
          lastResponse.body.statistics.total_rows =
             Sum(CountsOf(lastResponse.body.statistics.type_counts))

ListedByCount(items) ==
    /\ \A i, j \in 1..Len(items) : items[i].type = items[j].type => i = j
    /\ {items[i].type : i \in 1..Len(items)} =
          {TypeCells[k] : k \in 1..Len(TypeCells)} \ {""}
    /\ \A i \in 1..Len(items) :
          items[i].count =
             Cardinality({k \in 1..Len(TypeCells) : TypeCells[k] = items[i].type})
    /\ \A i, j \in 1..Len(items) : i < j => items[i].count >= items[j].count

Abs(x) == IF x < 0 THEN -x ELSE x

NearestHundredth(h, column) ==
    2 * Abs(100 * Sum(column) - h * Len(column)) <= Len(column)

ExampleColumns ==
    /\ [i \in 1..Len(Stored.rows) |-> Stored.rows[i].flowrate] = <<10, 20, 5>>
    /\ [i \in 1..Len(Stored.rows) |-> Stored.rows[i].pressure] = <<2, 4, 1>>
    /\ [i \in 1..Len(Stored.rows) |-> Stored.rows[i].temperature] = <<30, 40, 20>>
    /\ TypeCells = <<"Pump", "Pump", "Valve">>

C18_RoundedMeans ==
    SummaryOk =>
        /\ NearestHundredth(lastResponse.body.averages.flowrate,
                            [i \in 1..Len(Stored.rows) |-> Stored.rows[i].flowrate])
        /\ NearestHundredth(lastResponse.body.averages.pressure,
                            [i \in 1..Len(Stored.rows) |-> Stored.rows[i].pressure])
        /\ NearestHundredth(lastResponse.body.averages.temperature,
                            [i \in 1..Len(Stored.rows) |-> Stored.rows[i].temperature])
        /\ ExampleColumns =>
              /\ lastResponse.body.total_rows = 3
              /\ lastResponse.body.averages =
                    [flowrate |-> 1167, pressure |-> 233, temperature |-> 3000]
              /\ lastResponse.body.equipment_type_counts =
                    <<[type |-> "Pump", count |-> 2], [type |-> "Valve", count |-> 1]>>

C18_Witness ==
    /\ SummaryOk
    /\ ExampleColumns
    /\ lastResponse.body.averages.flowrate = 1167

(***************************************************************************)
(* Tables whose numeric columns hold no numbers (checked under SpecIngest) *)
(***************************************************************************)
\* A column with a cell that is no number, or with no number in it.
NotNumeric(column) ==
    \/ \E i \in 1..Len(column) : column[i] = Text
    \/ \A i \in 1..Len(column) : column[i] < 0

Unaggregable(table) ==
    /\ table.parsable
    /\ AllColumns \subseteq table.columns
    /\ \/ NotNumeric([i \in 1..Len(table.rows) |-> table.rows[i].flowrate])
       \/ NotNumeric([i \in 1..Len(table.rows) |-> table.rows[i].pressure])
       \/ NotNumeric([i \in 1..Len(table.rows) |-> table.rows[i].temperature])

AcceptedAsLatest ==
    /\ lastResponse.status = 200
    /\ files[lastRequest.file.name] = lastRequest.file.content
    /\ datasets # <<>>
    /\ Newest.file_name = lastRequest.file.name
    /\ Latest(datasets) = Newest

ReadsUnaggregable ==
    /\ Answers("GET", "/api/summary/") \/ Answers("GET", "/api/report/")
    /\ datasets # <<>>
    /\ Unaggregable(Stored)

\* C20: a table with the five columns and non-numeric or no numeric values in
\* a numeric column is accepted by the upload (200, file written, record
\* created, which is then the latest), and every summary and report that
\* follows while it is the latest ends in a server error, not in 400.
C20_FailsAtAggregation ==
    /\ (Answers("POST", "/api/upload/") /\ Unaggregable(lastRequest.file.content))
          => AcceptedAsLatest
    /\ ReadsUnaggregable => lastResponse.status >= 500

(***************************************************************************)
(* The charts of the report (checked under SpecReport)                     *)
(***************************************************************************)
\* The element a chart leaves in the report, given how its rendering went.
ShownFor(name, outcome) ==
    IF outcome = "image" THEN <<"image", name>> ELSE <<"placeholder", outcome>>

C22_NoFigureLeftOpen == figures = 0

(***************************************************************************)
(* Files and records of the store (checked under SpecStore)                *)
(***************************************************************************)
\* The records that refer to a path.
RecordsOf(table, path) == {i \in 1..Len(table) : table[i].file_name = path}

\* C23: an upload under a file name that is already stored adds a second
\* record with the same path and overwrites the file, so the summary that
\* follows is that of the second upload; a history clear then removes all the
\* records and, unless its removal fails, the file, and answers 200.
C23_LastWriteWins ==
    [][/\ (UploadAnswers(200)'
           /\ RecordsOf(datasets, lastRequest'.file.name) # {}) =>
             /\ Cardinality(RecordsOf(datasets', lastRequest'.file.name)) =
                   Cardinality(RecordsOf(datasets, lastRequest'.file.name)) + 1
             /\ files'[lastRequest'.file.name] = lastRequest'.file.content
       /\ (UploadAnswers(200) /\ Answers("GET", "/api/summary/")') =>
             lastResponse'.body = Summary(lastRequest.file.content)
       /\ (Answers("DELETE", "/api/history/")'
           /\ \E path \in FileNames : Cardinality(RecordsOf(datasets, path)) >= 2) =>
             /\ datasets' = <<>>
             /\ lastResponse'.status = 200
             /\ \A path \in FileNames :
                   (RecordsOf(datasets, path) # {} /\ path \notin lastClear'.failing) =>
                       files'[path] = Missing]_vars

C23_Witness ==
    /\ UploadAnswers(200)
    /\ Len(datasets) = 2
    /\ datasets[1].file_name = "a.csv"
    /\ datasets[2].file_name = "a.csv"
    /\ lastRequest.file.content = OtherTable
    /\ files["a.csv"] = OtherTable
    /\ files["b.csv"] = Missing

\* C24: when a file upload is answered 401 and the refresh succeeds, the
\* retried transmission carries the same file content as the first one
\* (checked under SpecClient).
C24_RetryCarriesTheFile ==
    \A i \in 1..Len(sent) :
        (sent[i].to = "api" /\ sent[i].files) => sent[i].body = "content"

\* C25: with one operation at a time and nothing else touching the upload
\* directory, every Dataset record refers to a file that exists, so summary
\* never answers that the file is missing.
C25_RecordsHaveFiles ==
    /\ \A i \in 1..Len(datasets) : files[datasets[i].file_name] # Missing
    /\ lastResponse # Reply(404, "CSV file not found on server.", <<>>)

C25_Witness ==
    /\ Answers("GET", "/api/summary/")
    /\ lastResponse.status = 200
    /\ clock > created
    /\ Len(datasets) = 1
    /\ Existing(files) = FileNames


(***************************************************************************)
(* An upload and a clear at the same time (checked under SpecConcurrent)   *)
(***************************************************************************)
BothCompleted == running.upload.at = "done" /\ running.clear.at = "done"

\* C26: when a clear and an upload run at the same time, once both have
\* completed every record that remains refers to a file that exists.
C26_RemainingRecordsHaveFiles ==
    BothCompleted =>
        \A i \in 1..Len(datasets) : files[datasets[i].file_name] # Missing

(***************************************************************************)
(* The dashboard (checked under SpecDashboard)                             *)
(***************************************************************************)
AcknowledgedUpload ==
    /\ handled.name = "_upload_csv"
    /\ handled.status = 200
    /\ dashboard_window.open

\* C27: after an upload the server acknowledged, summary_data is the summary
\* of the uploaded dataset or None, never the summary of an earlier dataset.
C27_NoStaleSummary ==
    AcknowledgedUpload =>
        dashboard_window.summary_data \in {NoData, Data(Summary(handled.file.content))}

\* C28: whenever the results sections are visible, the cards and charts show
\* the values of the current summary_data.
C28_CardsShowSummary ==
    (dashboard_window.open /\ dashboard_window.show_results) =>
        dashboard_window.cards = dashboard_window.summary_data

\* C29: the dashboard is never open while the client holds no token: every
\* authentication error, during the initial load too, closes it and shows
\* the login window.
C29_NeverOpenUnauthenticated ==
    dashboard_window.open => is_authenticated(access_token)

\* C30: a confirmed Clear History with a valid session sends DELETE
\* /api/history/ through the client, and on its 200 the dashboard holds no
\* history, no summary and hides the results.
C30_ClearHistoryResets ==
    (handled.name = "_clear_history" /\ is_authenticated(access_token)) =>
        /\ handled.requests = <<"DELETE /api/history/">>
        /\ handled.status = 200 =>
              /\ dashboard_window.history_data = <<>>
              /\ dashboard_window.summary_data = NoData
              /\ ~dashboard_window.show_results

=============================================================================
